---- MODULE Spec2Model ----
(***************************************************************************)
(* Model of the manifests-diff action: run() reads two manifest files,     *)
(* ManifestComparator.computeDiffs parses and compares them, and           *)
(* GitHubPRCommenter.postPullRequestComments marks the prior comments as   *)
(* outdated and posts the paginated report.                                *)
(*                                                                         *)
(* Strings are sequences of UTF-16 code units, so that length,             *)
(* concatenation and lexicographic order are those of the program.  A      *)
(* scalar of a document body is the number of code units of its text.      *)
(***************************************************************************)
EXTENDS Integers, Sequences, FiniteSets, TLC

VARIABLES
    current,          \* content of the file at current_manifests_path, as split on the separator
    target,           \* content of the file at target_manifests_path, as split on the separator
    title,            \* GitHubPRCommenter.title
    subtitle,         \* GitHubPRCommenter.subtitle
    maxCommentLength, \* GitHubPRCommenter.maxCommentLength
    hasPR,            \* github.context.payload.pull_request is set
    pc,               \* position of run() / postPullRequestComments()
    mpc,              \* position of minimizeExistingComments()
    currentObjects,   \* Map of computeDiffs, in insertion order
    targetObjects,    \* Map of computeDiffs, in insertion order
    diffs,            \* ManifestDiff[] returned by computeDiffs
    comments,         \* string[] returned by formatDiffsAsComments
    postIdx,          \* index of the for-of loop over comments
    priorComments,    \* comments.data returned by listComments
    botComments,      \* the filtered prior comments still to be minimized
    inFlight,         \* channel calls issued and not yet settled
    callLog,          \* channel calls in the order they were issued
    posted,           \* bodies of the comments created on the pull request
    minimized,        \* node ids marked OUTDATED
    console,          \* what printDiffs wrote: <<>> or <<number of differences>>
    warnings,         \* core.warning / core.error messages
    failed,           \* core.setFailed cause, "none" when not called
    prComments,       \* comments this action created on the pull request, oldest first
    argTemplate,         \* argument of a call of replacePlaceholders
    argValues,           \* argument of a call of replacePlaceholders
    replaced          \* what that call returned, <<>> before it

vars == <<current, target, title, subtitle, maxCommentLength, hasPR, pc, mpc, currentObjects,
          targetObjects, diffs, comments, postIdx, priorComments, botComments,
          inFlight,
          callLog, posted, minimized, console, warnings, failed, prComments, argTemplate,
          argValues, replaced>>

-----------------------------------------------------------------------------
(* Bounds of the model *)

MaxDocs == 2
MaxDiffs == 3
MaxPrior == 2

-----------------------------------------------------------------------------
(* Strings *)

SLASH == <<47>>
sV1 == <<118, 49>>
sKind == <<75>>
sA == <<97>>
sB == <<98>>
sC == <<99>>
sD == <<100>>
sE == <<101>>
sU == <<117>>
sNs == <<110, 115>>
sX == <<120>>
sY == <<121>>
sS == <<115>>
sP == <<112>>
sQ == <<113>>

RECURSIVE LexLess(_, _)
LexLess(s, t) ==
    IF t = <<>> THEN FALSE
    ELSE IF s = <<>> THEN TRUE
    ELSE IF Head(s) # Head(t) THEN Head(s) < Head(t)
    ELSE LexLess(Tail(s), Tail(t))

RECURSIVE SumSeq(_)
SumSeq(s) == IF s = <<>> THEN 0 ELSE Head(s) + SumSeq(Tail(s))

Digits(n) == IF n < 10 THEN 1 ELSE IF n < 100 THEN 2 ELSE 3

-----------------------------------------------------------------------------
(* constants.ts *)

MAX_COMMENT_LENGTH == 60000
COMMENT_LENGTH_BUFFER == 100
DEFAULT_NAMESPACE == <<100, 101, 102, 97, 117, 108, 116>>

\* A text is a sequence of tokens: a literal [lit, len], a placeholder
\* [ph] written {ph}, a substituted number [num] or string [str], or the
\* rendered section of one diff [block, status, len].
Lit(id, n) == [lit |-> id, len |-> n]
Ph(name) == [ph |-> name]

CONTINUATION_TEXT == <<Lit("continuationText", 36)>>
CONTINUATION_HEADER == <<Lit("continuationHeader", 45)>>
HEADER_TEMPLATE ==
    <<Lit("header", 41), Ph("totalCount"), Lit("differences", 16), Ph("addedCount"),
      Lit("added", 8), Ph("removedCount"), Lit("removed", 10), Ph("modifiedCount"),
      Lit("modified", 11)>>
FOOTER_TEMPLATE ==
    <<Lit("summary", 20), Ph("addedCount"), Lit("added", 8), Ph("removedCount"),
      Lit("removed", 10), Ph("modifiedCount"), Lit("howToRead", 290), Ph("apiVersion"),
      Lit("/", 1), Ph("kind"), Lit("/", 1), Ph("namespace"), Lit("/", 1), Ph("name"),
      Lit("footerEnd", 13)>>
NO_DIFFERENCES == <<Lit("noDifferences", 116)>>
\* 'Kubernetes Manifests Diff'
DEFAULT_TITLE ==
    <<75, 117, 98, 101, 114, 110, 101, 116, 101, 115, 32, 77, 97, 110, 105, 102, 101,
      115, 116, 115, 32, 68, 105, 102, 102>>

-----------------------------------------------------------------------------
(* Documents.  A fragment is what parseDocument(doc.trim()).toJS() yields: *)
(* null for a blank fragment, otherwise an object whose absent properties  *)
(* are absent from the record.  body is the ordered list of the remaining  *)
(* top-level fields; an entry holds a scalar v or a nested mapping m.      *)

NullJS == [null |-> TRUE]
Undefined == [undefined |-> TRUE]

Entry(f, v) == [f |-> f, v |-> v]
Nested(f, m) == [f |-> f, m |-> m]

Doc(name, body) ==
    [apiVersion |-> sV1, kind |-> sKind, metadata |-> [name |-> name], body |-> body]
DocNs(name, ns, body) ==
    [apiVersion |-> sV1, kind |-> sKind, metadata |-> [name |-> name, namespace |-> ns],
     body |-> body]
NoKindDoc(name) == [apiVersion |-> sV1, metadata |-> [name |-> name], body |-> <<>>]

\* parseDocument never throws: a fragment with a syntax error yields a Document
\* whose errors list is not empty and whose toJS() is the content recovered
\* around the error; toString() of such a Document throws
WithErrors(doc) ==
    [f \in DOMAIN doc \cup {"errors"} |-> IF f = "errors" THEN TRUE ELSE doc[f]]
hasErrors(doc) == doc # NullJS /\ "errors" \in DOMAIN doc

isValidKubernetesObject(obj) ==
    /\ obj # NullJS
    /\ "kind" \in DOMAIN obj
    /\ "apiVersion" \in DOMAIN obj
    /\ "metadata" \in DOMAIN obj
    /\ "name" \in DOMAIN obj.metadata

\* the namespace used as it is, no default
getObjectKeyNoDefault(obj) ==
    LET namespace == IF "namespace" \in DOMAIN obj.metadata
                     THEN obj.metadata.namespace
                     ELSE <<>>
    IN obj.apiVersion \o SLASH \o obj.kind \o SLASH \o namespace \o SLASH \o obj.metadata.name

getObjectKey(obj) ==
    LET namespace == IF "namespace" \in DOMAIN obj.metadata /\ obj.metadata.namespace # <<>>
                     THEN obj.metadata.namespace
                     ELSE DEFAULT_NAMESPACE
    IN obj.apiVersion \o SLASH \o obj.kind \o SLASH \o namespace \o SLASH \o obj.metadata.name

-----------------------------------------------------------------------------
(* Map<string, YamlDocument>: a sequence of entries in insertion order *)

MapKeys(m) == [i \in 1..Len(m) |-> m[i].key]
MapHas(m, k) == \E i \in 1..Len(m) : m[i].key = k
MapGet(m, k) ==
    IF MapHas(m, k) THEN m[CHOOSE i \in 1..Len(m) : m[i].key = k].val ELSE Undefined
\* the entry of a key already present is kept
MapSetKeepFirst(m, k, v) ==
    IF MapHas(m, k) THEN m ELSE Append(m, [key |-> k, val |-> v])

MapSet(m, k, v) ==
    IF MapHas(m, k)
    THEN [i \in 1..Len(m) |-> IF m[i].key = k THEN [key |-> k, val |-> v] ELSE m[i]]
    ELSE Append(m, [key |-> k, val |-> v])

RECURSIVE KeySet(_)
KeySet(ks) ==
    IF ks = <<>> THEN <<>>
    ELSE LET rest == KeySet(SubSeq(ks, 1, Len(ks) - 1))
             k == ks[Len(ks)]
         IN IF \E i \in 1..Len(rest) : rest[i] = k THEN rest ELSE Append(rest, k)

-----------------------------------------------------------------------------
(* ManifestComparator.parseManifests *)

RECURSIVE parseLoop(_, _)
parseLoop(documents, objects) ==
    IF documents = <<>> THEN [ok |-> TRUE, objects |-> objects]
    ELSE LET doc == Head(documents) IN
         IF isValidKubernetesObject(doc)
         THEN parseLoop(Tail(documents), MapSet(objects, getObjectKey(doc), doc))
         ELSE [ok |-> FALSE, objects |-> <<>>]

parseManifests(content) == parseLoop(content, <<>>)

-----------------------------------------------------------------------------
(* Serialisation.  A document is an ordered mapping; a line of its text is *)
(* [d: nesting depth, f: field name] with s (a string scalar), v (the      *)
(* length of a body scalar) or neither (the head of a nested mapping).     *)

sApiVersion == <<97, 112, 105, 86, 101, 114, 115, 105, 111, 110>>
sKindField == <<107, 105, 110, 100>>
sMetadata == <<109, 101, 116, 97, 100, 97, 116, 97>>
sName == <<110, 97, 109, 101>>
sNamespace == <<110, 97, 109, 101, 115, 112, 97, 99, 101>>

DocEntries(doc) ==
    <<[f |-> sApiVersion, s |-> doc.apiVersion],
      [f |-> sKindField, s |-> doc.kind],
      [f |-> sMetadata,
       m |-> <<[f |-> sName, s |-> doc.metadata.name]>> \o
             (IF "namespace" \in DOMAIN doc.metadata
              THEN <<[f |-> sNamespace, s |-> doc.metadata.namespace]>>
              ELSE <<>>)]>>
    \o doc.body

RECURSIVE Lines(_, _)
Lines(entries, d) ==
    IF entries = <<>> THEN <<>>
    ELSE LET e == Head(entries) IN
         (IF "m" \in DOMAIN e
          THEN <<[d |-> d, f |-> e.f]>> \o Lines(e.m, d + 1)
          ELSE IF "s" \in DOMAIN e
          THEN <<[d |-> d, f |-> e.f, s |-> e.s]>>
          ELSE <<[d |-> d, f |-> e.f, v |-> e.v]>>)
         \o Lines(Tail(entries), d)

RECURSIVE InsertSorted(_, _)
InsertSorted(e, sorted) ==
    IF sorted = <<>> THEN <<e>>
    ELSE IF LexLess(e.f, Head(sorted).f) THEN <<e>> \o sorted
    ELSE <<Head(sorted)>> \o InsertSorted(e, Tail(sorted))

RECURSIVE SortKeys(_)
SortKeys(entries) ==
    IF entries = <<>> THEN <<>>
    ELSE LET e == Head(entries)
             e1 == IF "m" \in DOMAIN e THEN [f |-> e.f, m |-> SortKeys(e.m)] ELSE e
         IN InsertSorted(e1, SortKeys(Tail(entries)))

LineLen(l) ==
    2 * l.d + Len(l.f) + 1 +
    (IF "s" \in DOMAIN l THEN 1 + Len(l.s) ELSE IF "v" \in DOMAIN l THEN 1 + l.v ELSE 0)

\* length of a text of these lines, each ended by a newline
TextLen(lines) == SumSeq([i \in 1..Len(lines) |-> LineLen(lines[i]) + 1])

\* YamlDocument.toString(): the fields in the order of the source text
toString(doc) == Lines(DocEntries(doc), 0)

\* yaml.dump(obj, { sortKeys: true })
yamlDump(obj) == Lines(SortKeys(DocEntries(obj)), 0)

\* createTwoFilesPatch('target/' + key, 'current/' + key, targetYaml, currentYaml)
PatchHeaderLen == 126
createTwoFilesPatch(key, targetYaml, currentYaml) ==
    [key |-> key, from |-> targetYaml, to |-> currentYaml]
PatchLen(p) ==
    PatchHeaderLen + 3 * Len(p.key) + TextLen(p.from) + Len(p.from)
                   + TextLen(p.to) + Len(p.to)

-----------------------------------------------------------------------------
(* ManifestComparator.computeDiffs *)

Truthy(x) == x # Undefined

\* the two one-sided cases exchanged
diffOfKeySwapped(key, currentObj, targetObj) ==
    IF ~Truthy(currentObj) /\ Truthy(targetObj)
    THEN <<[objectKey |-> key, status |-> "added", currentObject |-> targetObj]>>
    ELSE IF Truthy(currentObj) /\ ~Truthy(targetObj)
    THEN <<[objectKey |-> key, status |-> "removed", targetObject |-> currentObj]>>
    ELSE IF Truthy(currentObj) /\ Truthy(targetObj)
    THEN LET currentYaml == toString(currentObj)
             targetYaml == toString(targetObj)
         IN IF currentYaml # targetYaml
            THEN <<[objectKey |-> key, status |-> "modified",
                    currentObject |-> currentObj, targetObject |-> targetObj,
                    diff |-> createTwoFilesPatch(key, targetYaml, currentYaml)]>>
            ELSE <<>>
    ELSE <<>>

\* the comparison of the two texts left out
diffOfKeyNoCompare(key, currentObj, targetObj) ==
    IF ~Truthy(currentObj) /\ Truthy(targetObj)
    THEN <<[objectKey |-> key, status |-> "removed", targetObject |-> targetObj]>>
    ELSE IF Truthy(currentObj) /\ ~Truthy(targetObj)
    THEN <<[objectKey |-> key, status |-> "added", currentObject |-> currentObj]>>
    ELSE IF Truthy(currentObj) /\ Truthy(targetObj)
    THEN <<[objectKey |-> key, status |-> "modified",
            currentObject |-> currentObj, targetObject |-> targetObj,
            diff |-> createTwoFilesPatch(key, toString(targetObj), toString(currentObj))]>>
    ELSE <<>>

diffOfKey(key, currentObj, targetObj) ==
    IF ~Truthy(currentObj) /\ Truthy(targetObj)
    THEN <<[objectKey |-> key, status |-> "removed", targetObject |-> targetObj]>>
    ELSE IF Truthy(currentObj) /\ ~Truthy(targetObj)
    THEN <<[objectKey |-> key, status |-> "added", currentObject |-> currentObj]>>
    ELSE IF Truthy(currentObj) /\ Truthy(targetObj)
    THEN LET currentYaml == toString(currentObj)
             targetYaml == toString(targetObj)
         IN IF currentYaml # targetYaml
            THEN <<[objectKey |-> key, status |-> "modified",
                    currentObject |-> currentObj, targetObject |-> targetObj,
                    diff |-> createTwoFilesPatch(key, targetYaml, currentYaml)]>>
            ELSE <<>>
    ELSE <<>>

allKeysOf(currentObjs, targetObjs) == KeySet(MapKeys(currentObjs) \o MapKeys(targetObjs))

\* diffs.unshift in place of diffs.push
RECURSIVE diffLoopReversed(_, _, _)
diffLoopReversed(keys, currentObjs, targetObjs) ==
    IF keys = <<>> THEN <<>>
    ELSE diffLoopReversed(Tail(keys), currentObjs, targetObjs)
         \o diffOfKey(Head(keys), MapGet(currentObjs, Head(keys)), MapGet(targetObjs, Head(keys)))

RECURSIVE diffLoop(_, _, _)
diffLoop(keys, currentObjs, targetObjs) ==
    IF keys = <<>> THEN <<>>
    ELSE diffOfKey(Head(keys), MapGet(currentObjs, Head(keys)), MapGet(targetObjs, Head(keys)))
         \o diffLoop(Tail(keys), currentObjs, targetObjs)

computeDiffs(currentObjs, targetObjs) ==
    diffLoop(allKeysOf(currentObjs, targetObjs), currentObjs, targetObjs)

-----------------------------------------------------------------------------
(* GitHubPRCommenter: rendering *)

Num(n) == [num |-> n]
Str(x) == [str |-> x]

TokenLen(t) ==
    IF "lit" \in DOMAIN t THEN t.len
    ELSE IF "ph" \in DOMAIN t THEN Len(t.ph) + 2
    ELSE IF "num" \in DOMAIN t THEN Digits(t.num)
    ELSE IF "str" \in DOMAIN t THEN Len(t.str)
    ELSE t.len

StrLen(text) == SumSeq([i \in 1..Len(text) |-> TokenLen(text[i])])

\* values[key]?.toString() || match
replaceOne(t, values) ==
    IF "ph" \in DOMAIN t /\ t.ph \in DOMAIN values
    THEN LET v == values[t.ph] IN
         IF "str" \in DOMAIN v /\ v.str = <<>> THEN t ELSE v
    ELSE t

replacePlaceholders(template, values) ==
    [i \in 1..Len(template) |-> replaceOne(template[i], values)]

CountStatus(ds, status) == Len(SelectSeq(ds, LAMBDA d : d.status = status))

\* the filters of added and removed exchanged
getDiffCountsSwapped(ds) ==
    [totalCount |-> Num(Len(ds)),
     addedCount |-> Num(CountStatus(ds, "removed")),
     removedCount |-> Num(CountStatus(ds, "added")),
     modifiedCount |-> Num(CountStatus(ds, "modified"))]

getDiffCounts(ds) ==
    [totalCount |-> Num(Len(ds)),
     addedCount |-> Num(CountStatus(ds, "added")),
     removedCount |-> Num(CountStatus(ds, "removed")),
     modifiedCount |-> Num(CountStatus(ds, "modified"))]

getCommentHeader(ds, ttl, sub) ==
    LET counts == getDiffCounts(ds)
        values == [totalCount |-> counts.totalCount, addedCount |-> counts.addedCount,
                   removedCount |-> counts.removedCount,
                   modifiedCount |-> counts.modifiedCount,
                   title |-> Str(ttl),
                   subtitle |-> Str(IF sub # <<>> THEN <<10>> \o sub \o <<10>> ELSE <<>>)]
    IN replacePlaceholders(HEADER_TEMPLATE, values)

getCommentFooter(ds) == replacePlaceholders(FOOTER_TEMPLATE, getDiffCounts(ds))

\* formatObjectWithDiffSyntax: every line of the trimmed dump prefixed by '+ ' or '- '
DiffSyntaxLen(obj) ==
    LET lines == yamlDump(obj)
    IN SumSeq([i \in 1..Len(lines) |-> LineLen(lines[i]) + 2]) + (Len(lines) - 1)

formatDiffSection(diff) ==
    IF diff.status = "modified" /\ "diff" \in DOMAIN diff
    THEN <<[block |-> diff.objectKey, status |-> diff.status,
            len |-> 70 + Len(diff.objectKey) + PatchLen(diff.diff)]>>
    ELSE IF diff.status = "added" /\ "currentObject" \in DOMAIN diff
    THEN <<[block |-> diff.objectKey, status |-> diff.status,
            len |-> 66 + Len(diff.objectKey) + DiffSyntaxLen(diff.currentObject)]>>
    ELSE IF diff.status = "removed" /\ "targetObject" \in DOMAIN diff
    THEN <<[block |-> diff.objectKey, status |-> diff.status,
            len |-> 68 + Len(diff.objectKey) + DiffSyntaxLen(diff.targetObject)]>>
    ELSE <<[block |-> diff.objectKey, status |-> diff.status,
            len |-> 10 + Len(diff.status) + Len(diff.objectKey)]>>

-----------------------------------------------------------------------------
(* GitHubPRCommenter.formatDiffsAsComments *)

\* the limit tested without the space reserved for the footer
RECURSIVE formatLoopNoReserve(_, _, _, _, _, _)
formatLoopNoReserve(ds, currentComment, out, footer, ttl, maxLen) ==
    IF ds = <<>> THEN Append(out, currentComment \o footer)
    ELSE LET diffSection == formatDiffSection(Head(ds))
             reservedSpace == StrLen(footer) + COMMENT_LENGTH_BUFFER
         IN IF StrLen(currentComment) + StrLen(diffSection) > maxLen
            THEN formatLoopNoReserve(Tail(ds),
                            replacePlaceholders(CONTINUATION_HEADER, [title |-> Str(ttl)])
                                \o diffSection,
                            Append(out, currentComment \o CONTINUATION_TEXT),
                            footer, ttl, maxLen)
            ELSE formatLoopNoReserve(Tail(ds), currentComment \o diffSection, out, footer, ttl, maxLen)

\* the section appended only when the comment is not closed
RECURSIVE formatLoopDropOnSplit(_, _, _, _, _, _)
formatLoopDropOnSplit(ds, currentComment, out, footer, ttl, maxLen) ==
    IF ds = <<>> THEN Append(out, currentComment \o footer)
    ELSE LET diffSection == formatDiffSection(Head(ds))
             reservedSpace == StrLen(footer) + COMMENT_LENGTH_BUFFER
         IN IF StrLen(currentComment) + StrLen(diffSection) + reservedSpace > maxLen
            THEN formatLoopDropOnSplit(Tail(ds),
                            replacePlaceholders(CONTINUATION_HEADER, [title |-> Str(ttl)]),
                            Append(out, currentComment \o CONTINUATION_TEXT),
                            footer, ttl, maxLen)
            ELSE formatLoopDropOnSplit(Tail(ds), currentComment \o diffSection, out, footer, ttl, maxLen)

\* the new comment started empty
RECURSIVE formatLoopNoContinuationHeader(_, _, _, _, _, _)
formatLoopNoContinuationHeader(ds, currentComment, out, footer, ttl, maxLen) ==
    IF ds = <<>> THEN Append(out, currentComment \o footer)
    ELSE LET diffSection == formatDiffSection(Head(ds))
             reservedSpace == StrLen(footer) + COMMENT_LENGTH_BUFFER
         IN IF StrLen(currentComment) + StrLen(diffSection) + reservedSpace > maxLen
            THEN formatLoopNoContinuationHeader(Tail(ds),
                            diffSection,
                            Append(out, currentComment \o CONTINUATION_TEXT),
                            footer, ttl, maxLen)
            ELSE formatLoopNoContinuationHeader(Tail(ds), currentComment \o diffSection, out, footer, ttl, maxLen)

\* the space reserved for the continuation text, not for the footer
RECURSIVE formatLoopReserveMarker(_, _, _, _, _, _)
formatLoopReserveMarker(ds, currentComment, out, footer, ttl, maxLen) ==
    IF ds = <<>> THEN Append(out, currentComment \o footer)
    ELSE LET diffSection == formatDiffSection(Head(ds))
             reservedSpace == StrLen(CONTINUATION_TEXT) + COMMENT_LENGTH_BUFFER
         IN IF StrLen(currentComment) + StrLen(diffSection) + reservedSpace > maxLen
            THEN formatLoopReserveMarker(Tail(ds),
                            replacePlaceholders(CONTINUATION_HEADER, [title |-> Str(ttl)])
                                \o diffSection,
                            Append(out, currentComment \o CONTINUATION_TEXT),
                            footer, ttl, maxLen)
            ELSE formatLoopReserveMarker(Tail(ds), currentComment \o diffSection, out,
                                         footer, ttl, maxLen)

RECURSIVE formatLoop(_, _, _, _, _, _)
formatLoop(ds, currentComment, out, footer, ttl, maxLen) ==
    IF ds = <<>> THEN Append(out, currentComment \o footer)
    ELSE LET diffSection == formatDiffSection(Head(ds))
             reservedSpace == StrLen(footer) + COMMENT_LENGTH_BUFFER
         IN IF StrLen(currentComment) + StrLen(diffSection) + reservedSpace > maxLen
            THEN formatLoop(Tail(ds),
                            replacePlaceholders(CONTINUATION_HEADER, [title |-> Str(ttl)])
                                \o diffSection,
                            Append(out, currentComment \o CONTINUATION_TEXT),
                            footer, ttl, maxLen)
            ELSE formatLoop(Tail(ds), currentComment \o diffSection, out, footer, ttl, maxLen)

formatDiffsAsComments(ds, ttl, sub, maxLen) ==
    formatLoop(ds, getCommentHeader(ds, ttl, sub), <<>>, getCommentFooter(ds), ttl, maxLen)

-----------------------------------------------------------------------------
(* GitHubPRCommenter.printDiffs *)

printDiffs(ds) ==
    <<[found |-> Len(ds)]>>
    \o [i \in 1..Len(ds) |-> [status |-> ds[i].status, objectKey |-> ds[i].objectKey]]
    \o <<[added |-> CountStatus(ds, "added"), removed |-> CountStatus(ds, "removed"),
          modified |-> CountStatus(ds, "modified")]>>

\* the title marker of minimizeExistingComments is the magnifier and this.title;
\* the literals that hold the magnifier are followed by 'Kubernetes Manifests Diff'
includesTitleMarker(body, ttl) ==
    \E i \in 1..Len(body) :
        /\ "lit" \in DOMAIN body[i]
        /\ body[i].lit \in {"header", "continuationHeader"}
        /\ Len(ttl) <= Len(DEFAULT_TITLE)
        /\ ttl = SubSeq(DEFAULT_TITLE, 1, Len(ttl))

\* the author type not tested
isBotCommentAnyAuthor(comment, ttl) == includesTitleMarker(comment.body, ttl)

isBotComment(comment, ttl) ==
    comment.userType = "Bot" /\ includesTitleMarker(comment.body, ttl)

-----------------------------------------------------------------------------
(* run() *)

RunStart ==
    /\ pc = "start"
    /\ \E githubToken \in BOOLEAN :
         IF githubToken
         THEN pc' = "parseCurrent" /\ failed' = failed
         ELSE pc' = "done" /\ failed' = "token"
    /\ UNCHANGED <<prComments, argTemplate, argValues, replaced, current, target, title, subtitle,
                   maxCommentLength, hasPR, mpc,
                   currentObjects, targetObjects, diffs, comments, postIdx,
                   priorComments, botComments, inFlight, callLog, posted, minimized,
                   console, warnings>>

(* computeDiffs: parseManifests(currentManifestsPath) *)
ParseCurrent ==
    /\ pc = "parseCurrent"
    /\ \E readable \in BOOLEAN :
         IF ~readable
         THEN pc' = "done" /\ failed' = "read" /\ UNCHANGED currentObjects
         ELSE LET r == parseManifests(current) IN
              IF r.ok
              THEN pc' = "parseTarget" /\ currentObjects' = r.objects /\ UNCHANGED failed
              ELSE pc' = "done" /\ failed' = "parse" /\ UNCHANGED currentObjects
    /\ UNCHANGED <<prComments, argTemplate, argValues, replaced, current, target, title, subtitle,
                   maxCommentLength, hasPR, mpc,
                   targetObjects, diffs, comments, postIdx, priorComments, botComments,
                   inFlight, callLog, posted, minimized, console, warnings>>

\* the read error is reported and the comparison goes on with no target object
ParseTargetReadErrorContinues ==
    /\ pc = "parseTarget"
    /\ \E readable \in BOOLEAN :
         IF ~readable
         THEN pc' = "computeDiffs" /\ failed' = "read" /\ UNCHANGED targetObjects
         ELSE LET r == parseManifests(target) IN
              IF r.ok
              THEN pc' = "computeDiffs" /\ targetObjects' = r.objects /\ UNCHANGED failed
              ELSE pc' = "done" /\ failed' = "parse" /\ UNCHANGED targetObjects
    /\ UNCHANGED <<prComments, argTemplate, argValues, replaced, current, target, title, subtitle,
                   maxCommentLength, hasPR, mpc,
                   currentObjects, diffs, comments, postIdx, priorComments, botComments,
                   inFlight, callLog, posted, minimized, console, warnings>>

(* computeDiffs: parseManifests(targetManifestsPath) *)
ParseTarget ==
    /\ pc = "parseTarget"
    /\ \E readable \in BOOLEAN :
         IF ~readable
         THEN pc' = "done" /\ failed' = "read" /\ UNCHANGED targetObjects
         ELSE LET r == parseManifests(target) IN
              IF r.ok
              THEN pc' = "computeDiffs" /\ targetObjects' = r.objects /\ UNCHANGED failed
              ELSE pc' = "done" /\ failed' = "parse" /\ UNCHANGED targetObjects
    /\ UNCHANGED <<prComments, argTemplate, argValues, replaced, current, target, title, subtitle,
                   maxCommentLength, hasPR, mpc,
                   currentObjects, diffs, comments, postIdx, priorComments, botComments,
                   inFlight, callLog, posted, minimized, console, warnings>>

(* computeDiffs: the loop over allKeys, and the return to run() *)
\* toString() throws on the first key of both collections that holds a Document
\* with errors; the exception leaves computeDiffs and is caught by run()
stringifyThrows(currentObjs, targetObjs) ==
    \E i \in 1..Len(currentObjs) :
        /\ MapHas(targetObjs, currentObjs[i].key)
        /\ \/ hasErrors(currentObjs[i].val)
           \/ hasErrors(MapGet(targetObjs, currentObjs[i].key))

ComputeDiffs ==
    /\ pc = "computeDiffs"
    /\ IF stringifyThrows(currentObjects, targetObjects)
       THEN pc' = "done" /\ failed' = "stringify" /\ UNCHANGED diffs
       ELSE /\ diffs' = computeDiffs(currentObjects, targetObjects)
            /\ pc' = "post"
            /\ UNCHANGED failed
    /\ UNCHANGED <<prComments, argTemplate, argValues, replaced, current, target, title, subtitle,
                   maxCommentLength, hasPR, mpc,
                   currentObjects, targetObjects, comments, postIdx, priorComments,
                   botComments, inFlight, callLog, posted, minimized, console, warnings>>

-----------------------------------------------------------------------------
(* GitHubPRCommenter.postPullRequestComments *)

\* the comment createComment adds to the pull request: its author is the
\* account of the token, a Bot for the token of the workflow; its node id is
\* none of the ids of the comments of others
CreatedIdBase == 100
CreatedComment(n, body) == [node_id |-> CreatedIdBase + n, userType |-> "Bot", body |-> body]

ListCall == [op |-> "listComments"]
MinimizeCallOf(comment) == [op |-> "minimizeComment", id |-> comment.node_id]
CreateCall(i) == [op |-> "createComment", idx |-> i]

\* no pull request, and no return after the fallback
NoPullRequestNoReturn ==
    /\ pc = "post"
    /\ hasPR' = FALSE
    /\ warnings' = Append(warnings, "no PR context")
    /\ console' = printDiffs(diffs)
    /\ pc' = "awaitMinimize"
    /\ mpc' = "awaitList"
    /\ inFlight' = inFlight \cup {ListCall}
    /\ callLog' = Append(callLog, ListCall)
    /\ UNCHANGED <<prComments, argTemplate, argValues, replaced, current, target, title, subtitle,
                   maxCommentLength,
                   currentObjects, targetObjects, diffs, comments, postIdx,
                   priorComments, botComments, posted, minimized, failed>>

\* no pull request: the console fallback
NoPullRequest ==
    /\ pc = "post"
    /\ hasPR' = FALSE
    /\ warnings' = Append(warnings, "no PR context")
    /\ console' = printDiffs(diffs)
    /\ pc' = "done"
    /\ UNCHANGED <<prComments, argTemplate, argValues, replaced, current, target, title, subtitle,
                   maxCommentLength, mpc,
                   currentObjects, targetObjects, diffs, comments, postIdx,
                   priorComments, botComments, inFlight, callLog, posted, minimized,
                   failed>>

\* the call of minimizeExistingComments, which runs up to its first await
MinimizeExistingCommentsCall ==
    /\ pc = "post"
    /\ hasPR' = TRUE
    /\ pc' = "awaitMinimize"
    /\ mpc' = "awaitList"
    /\ inFlight' = inFlight \cup {ListCall}
    /\ callLog' = Append(callLog, ListCall)
    /\ UNCHANGED <<prComments, argTemplate, argValues, replaced, current, target, title, subtitle,
                   maxCommentLength, currentObjects,
                   targetObjects, diffs, comments, postIdx, priorComments, botComments,
                   posted, minimized, console, warnings, failed>>

\* the await of minimizeExistingComments(), taken without waiting
MinimizeAwaitedEarly ==
    /\ pc = "awaitMinimize"
    /\ pc' = "afterMinimize"
    /\ UNCHANGED <<prComments, argTemplate, argValues, replaced, current, target, title, subtitle,
                   maxCommentLength, hasPR, mpc,
                   currentObjects, targetObjects, diffs, comments, postIdx,
                   priorComments, botComments, inFlight, callLog, posted, minimized,
                   console, warnings, failed>>

\* await this.minimizeExistingComments()
MinimizeAwaited ==
    /\ pc = "awaitMinimize"
    /\ mpc = "done"
    /\ pc' = "afterMinimize"
    /\ UNCHANGED <<prComments, argTemplate, argValues, replaced, current, target, title, subtitle,
                   maxCommentLength, hasPR, mpc,
                   currentObjects, targetObjects, diffs, comments, postIdx,
                   priorComments, botComments, inFlight, callLog, posted, minimized,
                   console, warnings, failed>>

\* diffs.length === 0: the notice is posted
NoDifferencesCall ==
    /\ pc = "afterMinimize"
    /\ diffs = <<>>
    /\ pc' = "awaitPostNone"
    /\ inFlight' = inFlight \cup {CreateCall(0)}
    /\ callLog' = Append(callLog, CreateCall(0))
    /\ UNCHANGED <<prComments, argTemplate, argValues, replaced, current, target, title, subtitle,
                   maxCommentLength, hasPR, mpc,
                   currentObjects, targetObjects, diffs, comments, postIdx,
                   priorComments, botComments, posted, minimized, console, warnings,
                   failed>>

\* the report formatted whether or not there are differences
FormatCommentsUnguarded ==
    /\ pc = "afterMinimize"
    /\ comments' = formatDiffsAsComments(diffs, title, subtitle, maxCommentLength)
    /\ postIdx' = 1
    /\ pc' = "postLoop"
    /\ UNCHANGED <<prComments, argTemplate, argValues, replaced, current, target, title, subtitle,
                   maxCommentLength, hasPR, mpc,
                   currentObjects, targetObjects, diffs, priorComments, botComments,
                   inFlight, callLog, posted, minimized, console, warnings, failed>>

\* const comments = this.formatDiffsAsComments(diffs)
FormatComments ==
    /\ pc = "afterMinimize"
    /\ diffs # <<>>
    /\ comments' = formatDiffsAsComments(diffs, title, subtitle, maxCommentLength)
    /\ postIdx' = 1
    /\ pc' = "postLoop"
    /\ UNCHANGED <<prComments, argTemplate, argValues, replaced, current, target, title, subtitle,
                   maxCommentLength, hasPR, mpc,
                   currentObjects, targetObjects, diffs, priorComments, botComments,
                   inFlight, callLog, posted, minimized, console, warnings, failed>>

\* the loop body with the await dropped: the next call is issued at once
PostCommentCallNoAwait ==
    /\ pc = "postLoop"
    /\ postIdx <= Len(comments)
    /\ inFlight' = inFlight \cup {CreateCall(postIdx)}
    /\ callLog' = Append(callLog, CreateCall(postIdx))
    /\ postIdx' = postIdx + 1
    /\ UNCHANGED <<prComments, argTemplate, argValues, replaced, current, target, title, subtitle,
                   maxCommentLength, hasPR, pc, mpc,
                   currentObjects, targetObjects, diffs, comments, priorComments,
                   botComments, posted, minimized, console, warnings, failed>>

\* for (const comment of comments) await this.postComment(comment)
PostCommentCall ==
    /\ pc = "postLoop"
    /\ postIdx <= Len(comments)
    /\ pc' = "awaitPost"
    /\ inFlight' = inFlight \cup {CreateCall(postIdx)}
    /\ callLog' = Append(callLog, CreateCall(postIdx))
    /\ UNCHANGED <<prComments, argTemplate, argValues, replaced, current, target, title, subtitle,
                   maxCommentLength, hasPR, mpc,
                   currentObjects, targetObjects, diffs, comments, postIdx,
                   priorComments, botComments, posted, minimized, console, warnings,
                   failed>>

\* createComment resolves: the loop goes on, or the method returns
PostCommentResolved ==
    /\ pc \in {"awaitPost", "awaitPostNone"}
    /\ \E call \in inFlight :
         /\ call.op = "createComment"
         /\ inFlight' = inFlight \ {call}
         /\ LET body == IF pc = "awaitPostNone" THEN NO_DIFFERENCES
                        ELSE comments[call.idx]
            IN /\ posted' = Append(posted, body)
               /\ prComments' = Append(prComments, CreatedComment(Len(prComments) + 1, body))
    /\ IF pc = "awaitPostNone"
       THEN pc' = "done" /\ UNCHANGED postIdx
       ELSE /\ postIdx' = postIdx + 1
            /\ pc' = IF postIdx + 1 > Len(comments) THEN "done" ELSE "postLoop"
    /\ UNCHANGED <<argTemplate, argValues, replaced, current, target, title, subtitle,
                   maxCommentLength, hasPR, mpc,
                   currentObjects, targetObjects, diffs, comments, priorComments,
                   botComments, callLog, minimized, console, warnings, failed>>

\* createComment rejects and nothing catches it: run() marks the run failed
PostCommentRejectedUncaught ==
    /\ pc \in {"awaitPost", "awaitPostNone"}
    /\ \E call \in inFlight :
         /\ call.op = "createComment"
         /\ inFlight' = inFlight \ {call}
    /\ warnings' = Append(warnings, "Failed to post PR comments")
    /\ failed' = "post"
    /\ pc' = "done"
    /\ UNCHANGED <<prComments, argTemplate, argValues, replaced, current, target, title, subtitle,
                   maxCommentLength, hasPR, mpc,
                   currentObjects, targetObjects, diffs, comments, postIdx,
                   priorComments, botComments, callLog, posted, minimized, console>>

\* createComment rejects inside the loop: the segment is tried again
PostCommentRejectedRetries ==
    /\ pc \in {"awaitPost", "awaitPostNone"}
    /\ \E call \in inFlight :
         /\ call.op = "createComment"
         /\ inFlight' = inFlight \ {call}
    /\ warnings' = Append(warnings, "Failed to post PR comments")
    /\ console' = printDiffs(diffs)
    /\ pc' = IF pc = "awaitPostNone" THEN "afterMinimize" ELSE "postLoop"
    /\ UNCHANGED <<prComments, argTemplate, argValues, replaced, current, target, title, subtitle,
                   maxCommentLength, hasPR, mpc,
                   currentObjects, targetObjects, diffs, comments, postIdx,
                   priorComments, botComments, callLog, posted, minimized, failed>>

\* createComment rejects: the catch block logs the error and prints the diffs
PostCommentRejected ==
    /\ pc \in {"awaitPost", "awaitPostNone"}
    /\ \E call \in inFlight :
         /\ call.op = "createComment"
         /\ inFlight' = inFlight \ {call}
    /\ warnings' = Append(warnings, "Failed to post PR comments")
    /\ console' = printDiffs(diffs)
    /\ pc' = "done"
    /\ UNCHANGED <<prComments, argTemplate, argValues, replaced, current, target, title, subtitle,
                   maxCommentLength, hasPR, mpc,
                   currentObjects, targetObjects, diffs, comments, postIdx,
                   priorComments, botComments, callLog, posted, minimized, failed>>

-----------------------------------------------------------------------------
(* GitHubPRCommenter.minimizeExistingComments *)

PriorComment(id, userType, body) == [node_id |-> id, userType |-> userType, body |-> body]

\* what a prior comment can be: a report of an earlier run, the same text
\* written by a user, or another bot's comment
PriorKinds ==
    {[userType |-> "Bot", body |-> getCommentHeader(<<>>, DEFAULT_TITLE, <<>>)],
     [userType |-> "User", body |-> getCommentHeader(<<>>, DEFAULT_TITLE, <<>>)],
     [userType |-> "Bot", body |-> <<Lit("otherText", 30)>>]}

PriorLists ==
    UNION {{[i \in 1..n |-> PriorComment(i, k[i].userType, k[i].body)] :
               k \in [1..n -> PriorKinds]} : n \in 0..MaxPrior}

ListCommentsResolved ==
    /\ mpc = "awaitList"
    /\ ListCall \in inFlight
    /\ \E others \in PriorLists :
         LET data == others \o prComments
             bots == SelectSeq(data, LAMBDA c : isBotComment(c, title))
         IN
         /\ priorComments' = data
         /\ botComments' = bots
         /\ mpc' = IF bots = <<>> THEN "done" ELSE "minimizeLoop"
    /\ inFlight' = inFlight \ {ListCall}
    /\ UNCHANGED <<prComments, argTemplate, argValues, replaced, current, target, title, subtitle,
                   maxCommentLength, hasPR, pc,
                   currentObjects, targetObjects, diffs, comments, postIdx, callLog,
                   posted, minimized, console, warnings, failed>>

ListCommentsRejected ==
    /\ mpc = "awaitList"
    /\ ListCall \in inFlight
    /\ inFlight' = inFlight \ {ListCall}
    /\ warnings' = Append(warnings, "Failed to minimize existing comments")
    /\ mpc' = "done"
    /\ UNCHANGED <<prComments, argTemplate, argValues, replaced, current, target, title, subtitle,
                   maxCommentLength, hasPR, pc,
                   currentObjects, targetObjects, diffs, comments, postIdx,
                   priorComments, botComments, callLog, posted, minimized, console,
                   failed>>

\* for (const comment of botComments) await this.octokit.graphql(minimizeComment)
MinimizeCommentCall ==
    /\ mpc = "minimizeLoop"
    /\ botComments # <<>>
    /\ inFlight' = inFlight \cup {MinimizeCallOf(Head(botComments))}
    /\ callLog' = Append(callLog, MinimizeCallOf(Head(botComments)))
    /\ mpc' = "awaitGraphql"
    /\ UNCHANGED <<prComments, argTemplate, argValues, replaced, current, target, title, subtitle,
                   maxCommentLength, hasPR, pc,
                   currentObjects, targetObjects, diffs, comments, postIdx,
                   priorComments, botComments, posted, minimized, console, warnings,
                   failed>>

MinimizeCommentResolved ==
    /\ mpc = "awaitGraphql"
    /\ MinimizeCallOf(Head(botComments)) \in inFlight
    /\ inFlight' = inFlight \ {MinimizeCallOf(Head(botComments))}
    /\ minimized' = minimized \cup {Head(botComments).node_id}
    /\ botComments' = Tail(botComments)
    /\ mpc' = IF Tail(botComments) = <<>> THEN "done" ELSE "minimizeLoop"
    /\ UNCHANGED <<prComments, argTemplate, argValues, replaced, current, target, title, subtitle,
                   maxCommentLength, hasPR, pc,
                   currentObjects, targetObjects, diffs, comments, postIdx,
                   priorComments, callLog, posted, console, warnings, failed>>

\* the rejection leaves minimizeExistingComments and reaches the catch block
\* of postPullRequestComments
MinimizeCommentRejectedEscapes ==
    /\ mpc = "awaitGraphql"
    /\ MinimizeCallOf(Head(botComments)) \in inFlight
    /\ inFlight' = inFlight \ {MinimizeCallOf(Head(botComments))}
    /\ warnings' = Append(Append(warnings, "Failed to minimize existing comments"),
                          "Failed to post PR comments")
    /\ console' = printDiffs(diffs)
    /\ mpc' = "done"
    /\ pc' = "done"
    /\ UNCHANGED <<prComments, argTemplate, argValues, replaced, current, target, title, subtitle,
                   maxCommentLength, hasPR,
                   currentObjects, targetObjects, diffs, comments, postIdx,
                   priorComments, botComments, callLog, posted, minimized, failed>>

\* the catch block ends the loop
MinimizeCommentRejected ==
    /\ mpc = "awaitGraphql"
    /\ MinimizeCallOf(Head(botComments)) \in inFlight
    /\ inFlight' = inFlight \ {MinimizeCallOf(Head(botComments))}
    /\ warnings' = Append(warnings, "Failed to minimize existing comments")
    /\ mpc' = "done"
    /\ UNCHANGED <<prComments, argTemplate, argValues, replaced, current, target, title, subtitle,
                   maxCommentLength, hasPR, pc,
                   currentObjects, targetObjects, diffs, comments, postIdx,
                   priorComments, botComments, callLog, posted, minimized, console,
                   failed>>

-----------------------------------------------------------------------------
(* Inputs *)

SeqsUpTo(S, n) == UNION {[1..k -> S] : k \in 1..n}

flat == <<Entry(sX, 1), Entry(sY, 2)>>
flatReordered == <<Entry(sY, 2), Entry(sX, 1)>>
flatChanged == <<Entry(sX, 1), Entry(sY, 3)>>
nested == <<Nested(sS, <<Entry(sP, 1), Entry(sQ, 2)>>)>>
nestedReordered == <<Nested(sS, <<Entry(sQ, 2), Entry(sP, 1)>>)>>

\* fragments of the comparison runs: three keys, bodies that differ in
\* content or only in field order, a blank fragment and one without kind
DiffFragments ==
    {Doc(sA, flat), Doc(sA, flatReordered), Doc(sA, flatChanged),
     Doc(sB, nested), Doc(sB, nestedReordered), Doc(sC, flat),
     NullJS, NoKindDoc(sA)}

\* fragments of the full runs: a small document, two whose section does not
\* fit beside the header, and a blank fragment
RunFragments == {Doc(sA, <<Entry(sX, 1)>>), Doc(sA, <<Entry(sX, 300)>>),
                 Doc(sB, <<Entry(sX, 300)>>), NullJS}

InitRun ==
    /\ title = DEFAULT_TITLE
    /\ subtitle = <<>>
    /\ hasPR = FALSE
    /\ pc = "start"
    /\ mpc = "idle"
    /\ currentObjects = <<>>
    /\ targetObjects = <<>>
    /\ diffs = <<>>
    /\ comments = <<>>
    /\ postIdx = 0
    /\ priorComments = <<>>
    /\ botComments = <<>>
    /\ inFlight = {}
    /\ callLog = <<>>
    /\ posted = <<>>
    /\ minimized = {}
    /\ console = <<>>
    /\ warnings = <<>>
    /\ failed = "none"
    /\ prComments = <<>>
    /\ argTemplate = <<>>
    /\ argValues = <<>>
    /\ replaced = <<>>

Init ==
    /\ current \in SeqsUpTo(RunFragments, MaxDocs)
    /\ target \in SeqsUpTo(RunFragments, MaxDocs)
    /\ maxCommentLength = 1000
    /\ InitRun

Next ==
    \/ RunStart
    \/ ParseCurrent
    \/ ParseTarget
    \/ ComputeDiffs
    \/ NoPullRequest
    \/ MinimizeExistingCommentsCall
    \/ ListCommentsResolved
    \/ ListCommentsRejected
    \/ MinimizeCommentCall
    \/ MinimizeCommentResolved
    \/ MinimizeCommentRejected
    \/ MinimizeAwaited
    \/ NoDifferencesCall
    \/ FormatComments
    \/ PostCommentCall
    \/ PostCommentResolved
    \/ PostCommentRejected

Spec == Init /\ [][Next]_vars

(* The comparison alone, on richer inputs *)
InitDiff ==
    /\ current \in SeqsUpTo(DiffFragments, MaxDocs)
    /\ target \in SeqsUpTo(DiffFragments, MaxDocs)
    /\ maxCommentLength = MAX_COMMENT_LENGTH
    /\ InitRun

NextDiff ==
    \/ RunStart
    \/ ParseCurrent
    \/ ParseTarget
    \/ ComputeDiffs

SpecDiff == InitDiff /\ [][NextDiff]_vars

(* The whole run on the fragments a parser has to judge: valid documents,   *)
(* a blank fragment, fragments that lack an identity field or hold it as    *)
(* the empty string, and fragments with a syntax error.  The target file    *)
(* holds one fragment.                                                      *)
EmptyField(doc, field) ==
    IF field = "name" THEN [doc EXCEPT !.metadata.name = <<>>]
    ELSE [doc EXCEPT ![field] = <<>>]

ParseFragments ==
    {Doc(sA, <<Entry(sX, 1)>>), Doc(sB, <<Entry(sX, 2)>>), NullJS, NoKindDoc(sA),
     EmptyField(Doc(sA, <<>>), "kind"), EmptyField(Doc(sA, <<>>), "apiVersion"),
     EmptyField(Doc(sA, <<>>), "name"),
     WithErrors(Doc(sA, <<Entry(sX, 1)>>)), WithErrors(NoKindDoc(sB)),
     DocNs(sA, DEFAULT_NAMESPACE, <<Entry(sX, 1)>>), DocNs(sA, sNs, <<Entry(sX, 1)>>)}

InitParse ==
    /\ current \in SeqsUpTo(ParseFragments, MaxDocs)
    /\ target \in SeqsUpTo(ParseFragments, 1)
    /\ maxCommentLength = MAX_COMMENT_LENGTH
    /\ InitRun

SpecParse == InitParse /\ [][Next]_vars

(* Two runs on one pull request: the workflow is run again on the same     *)
(* files once a first run has posted its comments.                          *)
RunAgain ==
    /\ pc = "done"
    /\ failed = "none"
    /\ posted # <<>>
    /\ Len(prComments) = Len(posted)
    /\ pc' = "start"
    /\ mpc' = "idle"
    /\ hasPR' = FALSE
    /\ currentObjects' = <<>>
    /\ targetObjects' = <<>>
    /\ diffs' = <<>>
    /\ comments' = <<>>
    /\ postIdx' = 0
    /\ priorComments' = <<>>
    /\ botComments' = <<>>
    /\ callLog' = <<>>
    /\ posted' = <<>>
    /\ console' = <<>>
    /\ warnings' = <<>>
    /\ UNCHANGED <<prComments, argTemplate, argValues, replaced, current, target, title, subtitle,
                   maxCommentLength, inFlight, minimized, failed>>

RerunFragments == {Doc(sA, <<Entry(sX, 1)>>), Doc(sA, <<Entry(sX, 300)>>),
                   Doc(sB, <<Entry(sX, 300)>>)}

InitRerun ==
    /\ current \in SeqsUpTo(RerunFragments, MaxDocs)
    /\ target \in SeqsUpTo(RerunFragments, 1)
    /\ maxCommentLength = 1000
    /\ InitRun

NextRerun ==
    \/ Next
    \/ RunAgain

SpecRerun == InitRerun /\ [][NextRerun]_vars

(* replacePlaceholders alone, on templates of a few tokens: text, a count, *)
(* {title}, {subtitle} and a placeholder no caller supplies.               *)
MaxTemplate == 3

TemplateTokens ==
    {Lit("text", 5), Ph("totalCount"), Ph("title"), Ph("subtitle"), Ph("apiVersion")}

ValueSets ==
    {[totalCount |-> Num(n), title |-> Str(t), subtitle |-> Str(sub)] :
        n \in {0, 1, 12}, t \in {sA, DEFAULT_TITLE}, sub \in {<<>>, <<10>> \o sB \o <<10>>}}
    \cup {[totalCount |-> Num(n)] : n \in {0, 12}}

ReplacePlaceholdersCall ==
    /\ argTemplate # <<>>
    /\ replaced = <<>>
    /\ replaced' = replacePlaceholders(argTemplate, argValues)
    /\ UNCHANGED <<prComments, argTemplate, argValues, current, target, title, subtitle,
                   maxCommentLength, hasPR, pc, mpc, currentObjects, targetObjects, diffs,
                   comments, postIdx, priorComments, botComments, inFlight, callLog,
                   posted, minimized, console, warnings, failed>>

InitReplace ==
    /\ argTemplate \in SeqsUpTo(TemplateTokens, MaxTemplate)
    /\ argValues \in ValueSets
    /\ replaced = <<>>
    /\ prComments = <<>>
    /\ current = <<>>
    /\ target = <<>>
    /\ maxCommentLength = MAX_COMMENT_LENGTH
    /\ title = DEFAULT_TITLE
    /\ subtitle = <<>>
    /\ hasPR = FALSE
    /\ pc = "afterMinimize"
    /\ mpc = "done"
    /\ currentObjects = <<>>
    /\ targetObjects = <<>>
    /\ diffs = <<>>
    /\ comments = <<>>
    /\ postIdx = 0
    /\ priorComments = <<>>
    /\ botComments = <<>>
    /\ inFlight = {}
    /\ callLog = <<>>
    /\ posted = <<>>
    /\ minimized = {}
    /\ console = <<>>
    /\ warnings = <<>>
    /\ failed = "none"

NextReplace == ReplacePlaceholdersCall

SpecReplace == InitReplace /\ [][NextReplace]_vars

(* The paginator alone.  The state is the one in which postPullRequestComments *)
(* resumes after minimizeExistingComments found no prior comment; every key of *)
(* NamePool is absent, added, removed, modified or unchanged, with sections of *)
(* several sizes, and one unchanged document is in both files.                 *)
NamePool == <<sA, sB, sC, sD, sE>>
FmtOptions == {[cur |-> c, tgt |-> t] : c \in {0, 1, 300, 700, 900}, t \in {0, 1, 2}}
FmtMaxLengths == {100, 1000, MAX_COMMENT_LENGTH}

FmtContent(plan, side) ==
    LET docOf(i) == IF plan[i][side] = 0 THEN <<>>
                    ELSE <<Doc(NamePool[i], <<Entry(sX, plan[i][side])>>)>>
        F[i \in 0..Len(plan)] == IF i = 0 THEN <<>> ELSE F[i - 1] \o docOf(i)
    IN F[Len(plan)] \o <<Doc(sU, flat)>>

InitFmt ==
    /\ \E plan \in [1..MaxDiffs -> FmtOptions] :
         /\ current = FmtContent(plan, "cur")
         /\ target = FmtContent(plan, "tgt")
    /\ maxCommentLength \in FmtMaxLengths
    /\ title = DEFAULT_TITLE
    /\ subtitle = <<>>
    /\ hasPR = TRUE
    /\ pc = "afterMinimize"
    /\ mpc = "done"
    /\ currentObjects = parseManifests(current).objects
    /\ targetObjects = parseManifests(target).objects
    /\ diffs = computeDiffs(currentObjects, targetObjects)
    /\ comments = <<>>
    /\ postIdx = 0
    /\ priorComments = <<>>
    /\ botComments = <<>>
    /\ inFlight = {}
    /\ callLog = <<ListCall>>
    /\ posted = <<>>
    /\ minimized = {}
    /\ console = <<>>
    /\ warnings = <<>>
    /\ failed = "none"
    /\ prComments = <<>>
    /\ argTemplate = <<>>
    /\ argValues = <<>>
    /\ replaced = <<>>

NextFmt == FormatComments

SpecFmt == InitFmt /\ [][NextFmt]_vars

(* The paginator under the maximum run() computes when the workflow sets no *)
(* max_comment_char_len.                                                    *)

\* Number.prototype.toString of a natural number: its decimal digits
RECURSIVE numberToString(_)
numberToString(n) ==
    IF n < 10 THEN <<48 + n>> ELSE numberToString(n \div 10) \o <<48 + (n % 10)>>

\* parseInt(s, 10) of a string of decimal digits
RECURSIVE parseInt(_)
parseInt(str) ==
    IF str = <<>> THEN 0
    ELSE 10 * parseInt(SubSeq(str, 1, Len(str) - 1)) + (str[Len(str)] - 48)

\* the default action.yml declares for the input max_comment_char_len
ACTION_MAX_COMMENT_CHAR_LEN_DEFAULT == 600000

\* "GitHub's actual limit is ~65536 chars"
GITHUB_ACTUAL_LIMIT == 65536

\* core.getInput('max_comment_char_len') when the workflow does not set it:
\* the runner supplies the default of action.yml; without the metadata of the
\* action the input is the empty string
getInputMaxCommentCharLen(withActionMetadata) ==
    IF withActionMetadata THEN numberToString(ACTION_MAX_COMMENT_CHAR_LEN_DEFAULT) ELSE <<>>

\* parseInt(core.getInput('max_comment_char_len') || GITHUB.MAX_COMMENT_LENGTH.toString(), 10)
maxCommentCharLen(input) ==
    parseInt(IF input # <<>> THEN input ELSE numberToString(MAX_COMMENT_LENGTH))

DefaultOptions == {[cur |-> c, tgt |-> t] : c \in {0, 1, 40000}, t \in {0, 1, 2}}

InitDefault ==
    /\ \E plan \in [1..MaxDiffs -> DefaultOptions] :
         /\ current = FmtContent(plan, "cur")
         /\ target = FmtContent(plan, "tgt")
    /\ \E withActionMetadata \in BOOLEAN :
         maxCommentLength = maxCommentCharLen(getInputMaxCommentCharLen(withActionMetadata))
    /\ title = DEFAULT_TITLE
    /\ subtitle = <<>>
    /\ hasPR = TRUE
    /\ pc = "afterMinimize"
    /\ mpc = "done"
    /\ currentObjects = parseManifests(current).objects
    /\ targetObjects = parseManifests(target).objects
    /\ diffs = computeDiffs(currentObjects, targetObjects)
    /\ comments = <<>>
    /\ postIdx = 0
    /\ priorComments = <<>>
    /\ botComments = <<>>
    /\ inFlight = {}
    /\ callLog = <<ListCall>>
    /\ posted = <<>>
    /\ minimized = {}
    /\ console = <<>>
    /\ warnings = <<>>
    /\ failed = "none"
    /\ prComments = <<>>
    /\ argTemplate = <<>>
    /\ argValues = <<>>
    /\ replaced = <<>>

NextDefault == FormatComments

SpecDefault == InitDefault /\ [][NextDefault]_vars

-----------------------------------------------------------------------------
(* Properties of the comparison, checked under SpecDiff *)

KeysIn(m) == {m[i].key : i \in 1..Len(m)}
RecordsOf(k) == {i \in 1..Len(diffs) : diffs[i].objectKey = k}
SameText(k) == toString(MapGet(currentObjects, k)) = toString(MapGet(targetObjects, k))
HasStatus(status) == \E i \in 1..Len(diffs) : diffs[i].status = status
IsSortedKeys(ks) == \A i \in 1..Len(ks) - 1 : LexLess(ks[i], ks[i + 1])
DiffKeys == [i \in 1..Len(diffs) |-> diffs[i].objectKey]

\* C1: every key of the two parsed collections has at most one record, and
\* its status follows from where the key is present and whether the two
\* serialised documents are equal: only in current 'added', only in target
\* 'removed', in both and unequal 'modified', in both and equal no record;
\* a key in neither collection has no record.
C1_Classification ==
    pc = "post" =>
        /\ \A i \in 1..Len(diffs) :
             diffs[i].objectKey \in KeysIn(currentObjects) \cup KeysIn(targetObjects)
        /\ \A k \in KeysIn(currentObjects) \cup KeysIn(targetObjects) :
             /\ Cardinality(RecordsOf(k)) <= 1
             /\ (k \in KeysIn(currentObjects) \ KeysIn(targetObjects)
                   => \E i \in RecordsOf(k) : diffs[i].status = "added")
             /\ (k \in KeysIn(targetObjects) \ KeysIn(currentObjects)
                   => \E i \in RecordsOf(k) : diffs[i].status = "removed")
             /\ (k \in KeysIn(currentObjects) \cap KeysIn(targetObjects) /\ ~SameText(k)
                   => \E i \in RecordsOf(k) : diffs[i].status = "modified")
             /\ (k \in KeysIn(currentObjects) \cap KeysIn(targetObjects) /\ SameText(k)
                   => RecordsOf(k) = {})

C1_Witness ==
    /\ pc = "post"
    /\ HasStatus("added")
    /\ HasStatus("removed")
    /\ HasStatus("modified")

\* C2: when both inputs parse to the same keyed collection, computeDiffs
\* returns no record.
C2_DiffOfSameIsEmpty ==
    (pc = "post" /\ {currentObjects[i] : i \in 1..Len(currentObjects)}
                    = {targetObjects[i] : i \in 1..Len(targetObjects)})
        => diffs = <<>>

C2_Witness ==
    /\ pc = "post"
    /\ Len(currentObjects) = 2
    /\ currentObjects # targetObjects
    /\ {currentObjects[i] : i \in 1..Len(currentObjects)}
         = {targetObjects[i] : i \in 1..Len(targetObjects)}

\* C3: the records are sorted ascending by object key whatever the
\* order of the documents in the inputs.
C3_SortedByKey == pc = "post" => IsSortedKeys(DiffKeys)

\* The order computeDiffs keeps (the key-union order): the records are sorted
\* ascending by object key when the keys
\* of current in document order, followed by the keys only in target in
\* document order, are ascending.
C3_SortedWhenInputsSorted ==
    (pc = "post" /\ IsSortedKeys(allKeysOf(currentObjects, targetObjects)))
        => IsSortedKeys(DiffKeys)

C3_Witness ==
    /\ pc = "post"
    /\ IsSortedKeys(allKeysOf(currentObjects, targetObjects))
    /\ Len(diffs) >= 3

\* C4: two documents with the same key that differ only in the order of their
\* fields, at any nesting level, produce no record.
C4_FieldOrderIgnored ==
    pc = "post" =>
        \A k \in KeysIn(currentObjects) \cap KeysIn(targetObjects) :
            yamlDump(MapGet(currentObjects, k)) = yamlDump(MapGet(targetObjects, k))
                => RecordsOf(k) = {}

-----------------------------------------------------------------------------
(* Properties of the paginator, checked under SpecFmt *)

IsBlock(t) == "block" \in DOMAIN t
Blocks(text) == SelectSeq(text, IsBlock)
IsPrefix(p, text) == Len(p) <= Len(text) /\ SubSeq(text, 1, Len(p)) = p
IsSuffix(p, text) ==
    Len(p) <= Len(text) /\ SubSeq(text, Len(text) - Len(p) + 1, Len(text)) = p

RECURSIVE ConcatAll(_)
ConcatAll(texts) == IF texts = <<>> THEN <<>> ELSE Head(texts) \o ConcatAll(Tail(texts))

Formatted == pc = "postLoop"
TheHeader == getCommentHeader(diffs, title, subtitle)
TheFooter == getCommentFooter(diffs)

\* C5 as claimed: a segment is longer than the configured maximum only when a
\* record block in it is by itself longer than the maximum.
C5_NoSegmentExceeds ==
    Formatted =>
        \A i \in 1..Len(comments) :
            StrLen(comments[i]) > maxCommentLength
                => \E j \in 1..Len(comments[i]) :
                       IsBlock(comments[i][j]) /\ comments[i][j].len > maxCommentLength

\* C5: a segment is longer than the configured maximum only when it
\* holds at most one record block and that block together with the
\* continuation header, the footer and the safety buffer exceeds the maximum.
C5_ExceedsOnlyWithOneBlock ==
    Formatted =>
        \A i \in 1..Len(comments) :
            StrLen(comments[i]) > maxCommentLength
                => /\ Len(Blocks(comments[i])) <= 1
                   /\ StrLen(CONTINUATION_HEADER) + StrLen(Blocks(comments[i]))
                        + StrLen(TheFooter) + COMMENT_LENGTH_BUFFER > maxCommentLength

C5_Witness ==
    /\ Formatted
    /\ \E i \in 1..Len(comments) :
         /\ StrLen(comments[i]) > maxCommentLength
         /\ Len(Blocks(comments[i])) = 1
         /\ StrLen(Blocks(comments[i])) <= maxCommentLength
    /\ \E i \in 1..Len(comments) : Len(Blocks(comments[i])) >= 2

\* C6: the record blocks of the segments, concatenated in segment order, are
\* the rendered blocks of the records in list order, each once and whole.
C6_BlocksReproduced ==
    Formatted =>
        Blocks(ConcatAll(comments))
            = ConcatAll([i \in 1..Len(diffs) |-> formatDiffSection(diffs[i])])

C6_Witness ==
    /\ Formatted
    /\ Len(comments) >= 2
    /\ Len(diffs) >= 3
    /\ \E i \in 1..Len(comments) :
         \E j \in 1..Len(comments[i]) :
             IsBlock(comments[i][j]) /\ comments[i][j].len > maxCommentLength

\* C7: the first segment begins with the header, every segment but the last
\* ends with the continuation marker, every segment after the first begins
\* with the continuation header, and the last segment alone ends with the
\* footer.
C7_Framing ==
    Formatted =>
        /\ Len(comments) >= 1
        /\ IsPrefix(TheHeader, comments[1])
        /\ \A i \in 1..Len(comments) :
             /\ (i < Len(comments) => IsSuffix(CONTINUATION_TEXT, comments[i]))
             /\ (i > 1 => IsPrefix(CONTINUATION_HEADER, comments[i]))
             /\ (IsSuffix(TheFooter, comments[i]) <=> i = Len(comments))

C7_Witness == Formatted /\ Len(comments) >= 3

\* C8: the counts in the header and in the footer are the numbers of records
\* of each status, the total in the header is the number of records and the
\* sum of the three counts, and header and footer carry the same counts.
C8_Counts ==
    Formatted =>
        LET first == comments[1]
            last == comments[Len(comments)]
            off == Len(last) - Len(FOOTER_TEMPLATE)
            number(status) == Cardinality({i \in 1..Len(diffs) : diffs[i].status = status})
        IN /\ first[2] = Num(Len(diffs))
           /\ first[4] = Num(number("added"))
           /\ first[6] = Num(number("removed"))
           /\ first[8] = Num(number("modified"))
           /\ first[2].num = first[4].num + first[6].num + first[8].num
           /\ last[off + 2] = first[4]
           /\ last[off + 4] = first[6]
           /\ last[off + 6] = first[8]

C8_Witness ==
    /\ Formatted
    /\ Len(comments) >= 2
    /\ Cardinality({i \in 1..Len(diffs) : diffs[i].status = "added"}) = 2
    /\ Cardinality({i \in 1..Len(diffs) : diffs[i].status = "removed"}) = 1

-----------------------------------------------------------------------------
(* Properties of the calls on the GitHub client, checked under Spec *)

CallIndexes(op) == {j \in 1..Len(callLog) : callLog[j].op = op}
CreateCalls == SelectSeq(callLog, LAMBDA c : c.op = "createComment")
MinimizeFailed ==
    \E w \in 1..Len(warnings) : warnings[w] = "Failed to minimize existing comments"

\* C9: no createComment call is made before the listing and minimizing of the
\* prior comments has finished, with success or with a caught failure: once a
\* createComment call is made, minimizeExistingComments has returned, none of
\* its calls is pending and no further listComments or minimizeComment call
\* follows.
C9_PostAfterMinimize ==
    \A j \in CallIndexes("createComment") :
        /\ mpc = "done"
        /\ \A call \in inFlight : call.op = "createComment"
        /\ \A k \in 1..Len(callLog) : k > j => callLog[k].op = "createComment"

C9_Witness ==
    /\ pc = "done"
    /\ minimized # {}
    /\ MinimizeFailed
    /\ \E i \in CallIndexes("minimizeComment") :
         \E j \in CallIndexes("createComment") : i < j
    /\ Len(posted) >= 2

\* C10: the segments are posted one at a time in the order the paginator
\* produced them, segment i+1 only once the post of segment i has resolved,
\* and at no time are two calls (list, minimize, create) pending together.
C10_SequentialPosting ==
    /\ Cardinality(inFlight) <= 1
    /\ Len(CreateCalls) <= Len(posted) + 1
    /\ (\E call \in inFlight : call.op = "createComment")
           => Len(CreateCalls) = Len(posted) + 1
    /\ diffs # <<>> =>
         /\ \A i \in 1..Len(CreateCalls) : CreateCalls[i] = CreateCall(i)
         /\ Len(posted) <= Len(comments)
         /\ \A i \in 1..Len(posted) : posted[i] = comments[i]

C10_Witness ==
    /\ pc = "done"
    /\ Len(comments) >= 3
    /\ posted = comments
    /\ Len(callLog) >= 5

-----------------------------------------------------------------------------
(* Properties of the failure paths, checked under Spec *)

Warned(text) == \E w \in 1..Len(warnings) : warnings[w] = text
PostFailed == Warned("Failed to post PR comments")
NoPRContext == Warned("no PR context")
MinimizeCalled(comment) ==
    \E j \in 1..Len(callLog) : callLog[j] = MinimizeCallOf(comment)
ConsoleShowsDiffs ==
    /\ Len(console) = Len(diffs) + 2
    /\ console[1] = [found |-> Len(diffs)]
    /\ \A i \in 1..Len(diffs) :
         /\ console[i + 1].status = diffs[i].status
         /\ console[i + 1].objectKey = diffs[i].objectKey
AllPosted ==
    posted = IF diffs = <<>> THEN <<NO_DIFFERENCES>> ELSE comments

\* C11: once minimizeExistingComments has returned after a successful listing,
\* a minimizeComment call has been made for every matching prior comment, also
\* when one of those calls failed.
C11_EveryMatchAttempted ==
    mpc = "done" =>
        \A i \in 1..Len(priorComments) :
            isBotComment(priorComments[i], title) => MinimizeCalled(priorComments[i])

\* C12: a failed listComments or minimizeComment call only logs a warning: the
\* run is not marked failed, the console fallback is not taken because of it,
\* and postPullRequestComments goes on to post (it does not end before a
\* createComment call is made).
C12_MinimizeFailureIsWarning ==
    MinimizeFailed =>
        /\ failed = "none"
        /\ mpc = "done"
        /\ CreateCalls = <<>> =>
             /\ pc \in {"awaitMinimize", "afterMinimize", "postLoop"}
             /\ console = <<>>
        /\ (pc = "done" /\ ~PostFailed) => (AllPosted /\ console = <<>>)

C12_Witness ==
    /\ pc = "done"
    /\ MinimizeFailed
    /\ CallIndexes("minimizeComment") # {}
    /\ diffs # <<>>
    /\ AllPosted

\* C13: when a createComment call fails, the console shows the whole record
\* list, headed by the number of records, and the run is not marked failed.
C13_PostFailureFallsBack ==
    PostFailed =>
        /\ pc = "done"
        /\ failed = "none"
        /\ ConsoleShowsDiffs

C13_Witness ==
    /\ PostFailed
    /\ Len(diffs) >= 2
    /\ console[1] = [found |-> 2]

\* C14: when the post of segment k fails, the segments 1..k-1 are the posted
\* ones, the createComment calls of the run are those of segments 1..k, one
\* each, and none is pending or made later.
C14_NoRollbackNoRetry ==
    (PostFailed /\ diffs # <<>>) =>
        LET k == Len(CreateCalls) IN
        /\ pc = "done"
        /\ inFlight = {}
        /\ k >= 1
        /\ \A i \in 1..k : CreateCalls[i] = CreateCall(i)
        /\ posted = SubSeq(comments, 1, k - 1)

C14_Witness ==
    /\ PostFailed
    /\ Len(posted) >= 1
    /\ Len(posted) + 1 < Len(comments)

\* C15: without a pull request no call is made on the client, the console
\* shows the whole record list, and the run ends without being marked failed.
C15_NoPullRequestNoCalls ==
    NoPRContext =>
        /\ pc = "done"
        /\ mpc = "idle"
        /\ callLog = <<>>
        /\ inFlight = {}
        /\ posted = <<>>
        /\ failed = "none"
        /\ ConsoleShowsDiffs

C15_Witness ==
    /\ NoPRContext
    /\ Len(diffs) >= 2
    /\ Len(console) = Len(diffs) + 2

\* C16: a run that read and parsed both inputs ends with every segment (or the
\* notice) posted in order, or with the whole record list on the console.
C16_ChangeSetSurfaced ==
    (pc = "done" /\ failed \notin {"token", "read", "parse"}) =>
        \/ AllPosted /\ posted # <<>>
        \/ ConsoleShowsDiffs

\* C17: when an input file cannot be read the run is marked failed with the
\* read error, the comparison loop is not reached and no call is made on the
\* client.
C17_ReadFailureAborts ==
    failed = "read" =>
        /\ pc = "done"
        /\ targetObjects = <<>>
        /\ diffs = <<>>
        /\ callLog = <<>>
        /\ posted = <<>>
        /\ console = <<>>

C17_Witness ==
    /\ failed = "read"
    /\ currentObjects # <<>>

-----------------------------------------------------------------------------
(* Properties of the parser, checked under SpecParse *)

Fragments(content) == {content[i] : i \in 1..Len(content)}
LacksIdentity(frag) ==
    \/ "kind" \notin DOMAIN frag
    \/ "apiVersion" \notin DOMAIN frag
    \/ "metadata" \notin DOMAIN frag
    \/ "name" \notin DOMAIN frag.metadata
Malformed(frag) == frag # NullJS /\ (hasErrors(frag) \/ LacksIdentity(frag))
EmptyIdentity(frag) ==
    /\ frag # NullJS
    /\ ~LacksIdentity(frag)
    /\ (frag.kind = <<>> \/ frag.apiVersion = <<>> \/ frag.metadata.name = <<>>)
CurrentParsed == pc \in {"parseTarget", "computeDiffs"}
TargetParsed == pc = "computeDiffs"

\* C18: parsing succeeds for no input that holds a fragment with a syntax
\* error or without kind, apiVersion or metadata.name; when parsing fails the
\* run is marked failed, no collection is kept and no call is made on the
\* client.
C18_MalformedRejected ==
    /\ CurrentParsed => \A frag \in Fragments(current) : ~Malformed(frag)
    /\ TargetParsed => \A frag \in Fragments(target) : ~Malformed(frag)
    /\ failed = "parse" =>
         /\ pc = "done"
         /\ targetObjects = <<>>
         /\ callLog = <<>>
         /\ posted = <<>>

\* C19: blank fragments are dropped, not rejected: parsing fails only when a
\* fragment that is not blank is invalid.
C19_BlankFragmentsDiscarded ==
    failed = "parse" =>
        \E frag \in Fragments(current) \cup Fragments(target) :
            frag # NullJS /\ ~isValidKubernetesObject(frag)

\* C20: parsing succeeds for no input that holds a fragment whose kind,
\* apiVersion or metadata.name is the empty string.
C20_EmptyIdentityRejected ==
    /\ CurrentParsed => \A frag \in Fragments(current) : ~EmptyIdentity(frag)
    /\ TargetParsed => \A frag \in Fragments(target) : ~EmptyIdentity(frag)

-----------------------------------------------------------------------------
(* Properties of the collections and of the record order *)

ValidFragments(content) == SelectSeq(content, isValidKubernetesObject)
NamespaceOf(frag) ==
    IF "namespace" \in DOMAIN frag.metadata THEN frag.metadata.namespace
    ELSE DEFAULT_NAMESPACE
KeyOf(frag) ==
    frag.apiVersion \o SLASH \o frag.kind \o SLASH \o NamespaceOf(frag) \o SLASH
        \o frag.metadata.name
LastWith(content, k) ==
    LET docs == ValidFragments(content)
        last == CHOOSE i \in 1..Len(docs) :
                    /\ KeyOf(docs[i]) = k
                    /\ \A j \in (i + 1)..Len(docs) : KeyOf(docs[j]) # k
    IN docs[last]

\* C21: the parsed collection of current holds one entry for each object key
\* of the input, and the entry is the last document of the input with that key.
C21_LastWins ==
    pc \in {"parseTarget", "computeDiffs", "post"} =>
        /\ \A i, j \in 1..Len(currentObjects) :
             currentObjects[i].key = currentObjects[j].key => i = j
        /\ KeysIn(currentObjects) = {KeyOf(frag) : frag \in Fragments(current)}
        /\ \A i \in 1..Len(currentObjects) :
             currentObjects[i].val = LastWith(current, currentObjects[i].key)

C21_Witness ==
    /\ pc = "post"
    /\ Len(current) = 2
    /\ current[1] # current[2]
    /\ Len(currentObjects) = 1
    /\ currentObjects[1].val = current[2]

\* C22: the key of every parsed document is apiVersion/kind/namespace/name
\* with namespace 'default' when the document has none, so a document without
\* namespace and the same document with namespace 'default' share one entry.
C22_KeyFormat ==
    CurrentParsed =>
        /\ \A i \in 1..Len(currentObjects) :
             currentObjects[i].key = KeyOf(currentObjects[i].val)
        /\ \A f, g \in Fragments(current) :
             (/\ isValidKubernetesObject(f) /\ isValidKubernetesObject(g)
              /\ "namespace" \notin DOMAIN f.metadata
              /\ "namespace" \in DOMAIN g.metadata
              /\ g.metadata.namespace = DEFAULT_NAMESPACE
              /\ f.apiVersion = g.apiVersion /\ f.kind = g.kind
              /\ f.metadata.name = g.metadata.name)
             => Cardinality({i \in 1..Len(currentObjects) :
                                currentObjects[i].key \in {KeyOf(f), KeyOf(g)}}) = 1

C22_Witness ==
    /\ CurrentParsed
    /\ current = <<Doc(sA, <<Entry(sX, 1)>>), DocNs(sA, DEFAULT_NAMESPACE, <<Entry(sX, 1)>>)>>
    /\ Len(currentObjects) = 1

FirstAppearance(content) == KeySet([i \in 1..Len(ValidFragments(content)) |->
                                       KeyOf(ValidFragments(content)[i])])
KeyUnionOrder ==
    FirstAppearance(current)
        \o SelectSeq(FirstAppearance(target),
                     LAMBDA k : \A i \in 1..Len(FirstAppearance(current)) :
                                    FirstAppearance(current)[i] # k)

\* C30: the records come in key-union insertion order: the keys of current in
\* the order of their first appearance in the current input, then the keys
\* only in target in the order of their first appearance in the target input.
C30_InsertionOrder ==
    pc = "post" =>
        DiffKeys = SelectSeq(KeyUnionOrder, LAMBDA k : RecordsOf(k) # {})

C30_Witness ==
    /\ pc = "post"
    /\ Len(diffs) >= 3
    /\ ~IsSortedKeys(DiffKeys)

-----------------------------------------------------------------------------
(* Further properties of the posting, checked under Spec *)

HoldsMarker(comment) == includesTitleMarker(comment.body, title)
MatchingIds ==
    {priorComments[i].node_id : i \in {j \in 1..Len(priorComments) :
        priorComments[j].userType = "Bot" /\ HoldsMarker(priorComments[j])}}

\* C24: with a pull request and an empty diff result the paginator is not
\* run, the only createComment call is the one of the no-differences notice,
\* made after minimizeExistingComments has returned, and the notice is the
\* one comment posted.
C24_NoDifferencesNotice ==
    (hasPR /\ diffs = <<>>) =>
        /\ comments = <<>>
        /\ pc \notin {"postLoop", "awaitPost"}
        /\ CreateCalls \in {<<>>, <<CreateCall(0)>>}
        /\ posted \in {<<>>, <<NO_DIFFERENCES>>}
        /\ CreateCalls # <<>> => (mpc = "done" /\ callLog[1] = ListCall)
        /\ (pc = "done" /\ ~PostFailed) => posted = <<NO_DIFFERENCES>>

C24_Witness ==
    /\ hasPR
    /\ diffs = <<>>
    /\ pc = "done"
    /\ minimized # {}
    /\ posted = <<NO_DIFFERENCES>>

\* C25: every minimizeComment call is for a listed comment written by a Bot
\* whose body holds the title marker, no comment gets two calls, and when
\* listing and minimizing succeed the minimized comments are exactly those.
C25_ExactlyMatchingMinimized ==
    /\ \A j \in CallIndexes("minimizeComment") : callLog[j].id \in MatchingIds
    /\ \A j, k \in CallIndexes("minimizeComment") :
         callLog[j].id = callLog[k].id => j = k
    /\ minimized \subseteq {callLog[j].id : j \in CallIndexes("minimizeComment")}
    /\ (mpc = "done" /\ ~MinimizeFailed) => minimized = MatchingIds

C25_Witness ==
    /\ mpc = "done"
    /\ ~MinimizeFailed
    /\ Len(priorComments) = 2
    /\ Cardinality(minimized) = 1
    /\ \E i \in 1..Len(priorComments) :
         priorComments[i].userType = "User" /\ HoldsMarker(priorComments[i])

-----------------------------------------------------------------------------
(* Further properties of the paginator, checked under SpecFmt *)

Larger(a, b) == IF a >= b THEN a ELSE b
Reserve == Larger(StrLen(TheFooter), StrLen(CONTINUATION_TEXT)) + COMMENT_LENGTH_BUFFER
OpensSegment(s, j) == s > 1 /\ j = Len(CONTINUATION_HEADER) + 1

\* C27: a block opens a new segment exactly when the buffer before it, the
\* block, the larger of footer and continuation marker, and the safety buffer
\* together exceed the maximum; otherwise it follows the buffer in the same
\* segment.
C27_SplitCondition ==
    Formatted =>
        \A s \in 1..Len(comments) :
            \A j \in 1..Len(comments[s]) :
                IsBlock(comments[s][j]) =>
                    IF OpensSegment(s, j)
                    THEN StrLen(comments[s - 1]) - StrLen(CONTINUATION_TEXT)
                             + comments[s][j].len + Reserve > maxCommentLength
                    ELSE StrLen(SubSeq(comments[s], 1, j - 1))
                             + comments[s][j].len + Reserve <= maxCommentLength

C27_Witness ==
    /\ Formatted
    /\ Len(comments) >= 3
    /\ \E s \in 2..Len(comments) : Len(Blocks(comments[s])) >= 2

\* C28 as claimed: every segment holds a record block, so there are at most
\* as many segments as records.
C28_EverySegmentHasBlock ==
    Formatted =>
        /\ \A s \in 1..Len(comments) : Len(Blocks(comments[s])) >= 1
        /\ Len(comments) <= Len(diffs)

\* C28: every segment after the first holds a record block; the
\* first holds none only when the first block does not fit beside the header,
\* so there are at most as many segments as records plus one.
C28_OnlyFirstSegmentWithoutBlock ==
    Formatted =>
        /\ \A s \in 2..Len(comments) : Len(Blocks(comments[s])) >= 1
        /\ Len(comments) <= Len(diffs) + 1
        /\ Blocks(comments[1]) = <<>> =>
             StrLen(TheHeader) + StrLen(formatDiffSection(diffs[1])) + StrLen(TheFooter)
                 + COMMENT_LENGTH_BUFFER > maxCommentLength

C28_Witness ==
    /\ Formatted
    /\ Len(diffs) >= 2
    /\ Blocks(comments[1]) = <<>>
    /\ Len(comments) = Len(diffs) + 1

-----------------------------------------------------------------------------
(* replacePlaceholders, checked under SpecReplace *)

IsPlaceholder(t) == "ph" \in DOMAIN t

\* C23: every placeholder whose name is among the supplied values is replaced
\* by its value, also when the value is 0 or the empty string, and every
\* other token of the template is left as it is.
C23_EveryPlaceholderReplaced ==
    replaced # <<>> =>
        /\ Len(replaced) = Len(argTemplate)
        /\ \A i \in 1..Len(argTemplate) :
             IF IsPlaceholder(argTemplate[i]) /\ argTemplate[i].ph \in DOMAIN argValues
             THEN replaced[i] = argValues[argTemplate[i].ph]
             ELSE replaced[i] = argTemplate[i]

-----------------------------------------------------------------------------
(* Two runs on one pull request, checked under SpecRerun *)

\* C29: when the listing and the minimizing of a second run succeed, every
\* comment the first run created is minimized.
C29_FirstRunCommentsMinimized ==
    (mpc = "done" /\ ~MinimizeFailed) =>
        \A i \in 1..Len(priorComments) :
            priorComments[i].node_id > CreatedIdBase
                => priorComments[i].node_id \in minimized

\* what does hold of the second run: every comment of the first run that
\* opens with the header or the continuation header is minimized
FirstRunSegmentsMinimized ==
    (mpc = "done" /\ ~MinimizeFailed) =>
        \A i \in 1..Len(priorComments) :
            (priorComments[i].node_id > CreatedIdBase /\ priorComments[i].body # NO_DIFFERENCES)
                => priorComments[i].node_id \in minimized

SecondRunSawSegments ==
    /\ mpc = "done"
    /\ ~MinimizeFailed
    /\ \E i \in 1..Len(priorComments), j \in 1..Len(priorComments) :
         /\ i < j
         /\ priorComments[i].node_id > CreatedIdBase
         /\ priorComments[j].node_id > CreatedIdBase

-----------------------------------------------------------------------------
(* The unconfigured maximum, checked under SpecDefault *)

\* C26: with no maximum configured the paginator works against
\* MAX_COMMENT_LENGTH, and no segment is longer than the limit of the channel.
C26_DefaultWithinLimit ==
    Formatted =>
        /\ maxCommentLength = MAX_COMMENT_LENGTH
        /\ \A s \in 1..Len(comments) : StrLen(comments[s]) <= GITHUB_ACTUAL_LIMIT

\* what does hold: without the default of action.yml the maximum is
\* MAX_COMMENT_LENGTH
FallbackIsMaxCommentLength ==
    maxCommentCharLen(<<>>) = MAX_COMMENT_LENGTH

\* the default of action.yml in effect and a segment longer than the limit
SegmentOverLimit ==
    /\ Formatted
    /\ maxCommentLength = ACTION_MAX_COMMENT_CHAR_LEN_DEFAULT
    /\ \E s \in 1..Len(comments) : StrLen(comments[s]) > GITHUB_ACTUAL_LIMIT

\* with MAX_COMMENT_LENGTH in effect the same files give segments within it
WithinLimitUnderFallback ==
    (Formatted /\ maxCommentLength = MAX_COMMENT_LENGTH) =>
        \A s \in 1..Len(comments) : StrLen(comments[s]) <= GITHUB_ACTUAL_LIMIT

====
